---- MODULE Spec2Model ----
(***************************************************************************)
(* A model of src/orchestrator.py: the keyword planner                     *)
(* (MultiAgentOrchestrator._determine_intent), the agent registry, the     *)
(* built-in agents and the step loop of execute_orchestration.             *)
(*                                                                         *)
(* Representation of Python values                                         *)
(*   str    a sequence of whitespace-free words; the string is the words   *)
(*          joined by single blanks, "" is << >>.  A string that is never  *)
(*          split (a literal message) is kept as one word.                 *)
(*   dict   a function whose domain is a set of key strings.               *)
(*   list   a sequence.                                                    *)
(* datetime.now() timestamps are left out of every dict.                   *)
(***************************************************************************)
EXTENDS Integers, Sequences, FiniteSets, TLC

\* ------------------------------------------------------------------------
\* Bounds of the model
\* ------------------------------------------------------------------------
MaxLen == 4      \* longest query, in words, of the exhaustive planner pool
MaxRuns == 2     \* calls of execute_orchestration made one after the other

Runs == 1..MaxRuns

\* ------------------------------------------------------------------------
\* Strings
\* ------------------------------------------------------------------------
\* The words queries are built from.
Words == {"pdf", "summarize", "Research", "email", "meeting", "the", "fox"}

\* str.lower() on one word.
LowerWord(w) == IF w = "Research" THEN "research" ELSE w

\* str.lower().strip() on a string (a string of words has no outer blanks).
Lower(s) == [k \in 1..Len(s) |-> LowerWord(s[k])]

\* str.split(): the words of the string.
Split(s) == s

\* The keywords that occur as a substring inside one lower-case word.
Contained(w) ==
    CASE w = "pdf"       -> {"pdf"}
      [] w = "summarize" -> {"summarize"}
      [] w = "research"  -> {"research"}
      [] w = "email"     -> {"email", "mail"}
      [] w = "meeting"   -> {"meeting"}
      [] OTHER           -> {}

\* Python's `keyword in query_lower`: substring search in the whole string.
\* None of the two-word keywords ("key points", "search web", ...) is spelt
\* by two neighbouring words of Words, so a match lies inside one word.
KeywordIn(keyword, s) == \E k \in 1..Len(s) : keyword \in Contained(s[k])

\* any(keyword in query_lower for keyword in keywords)
AnyKeywordIn(keywords, s) == \E keyword \in keywords : KeywordIn(keyword, s)

\* " ".join(parts) for a list of strings.
RECURSIVE Join(_)
Join(parts) == IF parts = << >> THEN << >> ELSE Head(parts) \o Join(Tail(parts))

\* ------------------------------------------------------------------------
\* Dicts
\* ------------------------------------------------------------------------
EmptyDict == << >>

\* dict.get(key, default)
Get(d, key, default) == IF key \in DOMAIN d THEN d[key] ELSE default

\* bool(d.get(key)) for a value that is a str, a list or a dict.
Truthy(d, key) == key \in DOMAIN d /\ DOMAIN d[key] # {}

\* d.update(other) / {**d, **other}: other's values win.
Update(d, other) == other @@ d

\* d with d[key] = value
SetItem(d, key, value) == (key :> value) @@ d

\* ------------------------------------------------------------------------
\* The planner: MultiAgentOrchestrator._determine_intent
\* ------------------------------------------------------------------------
file_keywords == {"pdf", "document", "file", "doc", "txt", "attachment", "upload"}
analysis_keywords == {"summarize", "summary", "analyze", "analysis", "insights",
                      "report", "explain", "key points", "brief", "overview"}
research_keywords == {"research", "google", "search web", "find information",
                      "look up", "market", "competitive", "industry"}
email_keywords == {"email", "mail", "inbox", "messages"}
calendar_keywords == {"schedule", "meeting", "calendar", "appointment"}
articles == {"the", "a", "an", "this", "that"}

MsgNoFile == <<"You mentioned a file but didn't upload any. Please attach a file and try again.">>
MsgMoreContent == <<"Please provide more content to analyze, or upload a file.">>
MsgNotUnderstood == <<"I couldn't understand what you'd like me to do. Please provide more details.">>

ErrorPlan(message) == << [task_type |-> "error", message |-> message] >>
Step(task_type) == [task_type |-> task_type]

mentions_file(query) == AnyKeywordIn(file_keywords, Lower(query))
wants_analysis(query) == AnyKeywordIn(analysis_keywords, Lower(query))
wants_research(query) == AnyKeywordIn(research_keywords, Lower(query))
\* Variant: scheduling vocabulary takes precedence over messaging
\* vocabulary.
wants_email_unless_calendar(query) ==
    AnyKeywordIn(email_keywords, Lower(query))
    /\ ~AnyKeywordIn(calendar_keywords, Lower(query))
wants_email(query) == AnyKeywordIn(email_keywords, Lower(query))
wants_calendar(query) == AnyKeywordIn(calendar_keywords, Lower(query))

\* [w for w in query_lower.split() if w not in analysis_keywords + [articles]]
content_words(query) ==
    SelectSeq(Split(Lower(query)),
              LAMBDA w : w \notin (analysis_keywords \cup articles))

\* The number of residual words below which an analysis request is refused.
MinContentWords == 3
\* The number of words a query must exceed to default to analysis.
DefaultAnalysisWords == 3

\* Variant: an empty query does not default to analysis.
FilePlanNoDefault(query) ==
    IF wants_analysis(query)
    THEN << Step("file_processing"), Step("analysis") >>
    ELSE << Step("file_processing") >>

FilePlan(query) ==
    IF wants_analysis(query) \/ query = << >>
    THEN << Step("file_processing"), Step("analysis") >>
    ELSE << Step("file_processing") >>

\* Variant: the content check is made for research queries too, its error
\* entry being appended to the plan.
ResearchPlanChecking(query) ==
    IF ~wants_analysis(query) THEN << Step("web_research") >>
    ELSE IF Len(content_words(query)) < MinContentWords
    THEN << Step("web_research") >> \o ErrorPlan(MsgMoreContent)
    ELSE << Step("web_research"), Step("analysis") >>

\* Variant: research is never followed by analysis.
ResearchPlanAlone(query) == << Step("web_research") >>

ResearchPlan(query) ==
    IF wants_analysis(query) \/ KeywordIn("report", Lower(query))
    THEN << Step("web_research"), Step("analysis") >>
    ELSE << Step("web_research") >>

\* Variant: the words of the query are counted, not the residual ones.
AnalysisPlanAllWords(query) ==
    IF Len(Split(Lower(query))) < MinContentWords
    THEN ErrorPlan(MsgMoreContent)
    ELSE << Step("analysis") >>

\* Variant: exactly MinContentWords residual words are refused too.
AnalysisPlanMoreThan(query) ==
    IF Len(content_words(query)) <= MinContentWords
    THEN ErrorPlan(MsgMoreContent)
    ELSE << Step("analysis") >>

AnalysisPlan(query) ==
    IF Len(content_words(query)) < MinContentWords
    THEN ErrorPlan(MsgMoreContent)
    ELSE << Step("analysis") >>

\* Variant: a query of exactly DefaultAnalysisWords words is analysed too.
DefaultPlanAtLeast(query) ==
    IF Len(Split(query)) >= DefaultAnalysisWords
    THEN << Step("analysis") >>
    ELSE ErrorPlan(MsgNotUnderstood)

DefaultPlan(query) ==
    IF Len(Split(query)) > DefaultAnalysisWords
    THEN << Step("analysis") >>
    ELSE ErrorPlan(MsgNotUnderstood)

\* Variant: the research branch is tried before the file validation.
determine_intent_research_first(query, has_files) ==
    IF wants_research(query) /\ ~has_files THEN ResearchPlan(query)
    ELSE IF mentions_file(query) /\ ~has_files THEN ErrorPlan(MsgNoFile)
    ELSE IF has_files THEN FilePlan(query)
    ELSE IF wants_analysis(query) THEN AnalysisPlan(query)
    ELSE IF wants_email(query) THEN << Step("email_analysis") >>
    ELSE IF wants_calendar(query) THEN << Step("schedule_meeting") >>
    ELSE DefaultPlan(query)

determine_intent(query, has_files) ==
    IF mentions_file(query) /\ ~has_files THEN ErrorPlan(MsgNoFile)
    ELSE IF has_files THEN FilePlan(query)
    ELSE IF wants_research(query) THEN ResearchPlan(query)
    ELSE IF wants_analysis(query) THEN AnalysisPlan(query)
    ELSE IF wants_email(query) THEN << Step("email_analysis") >>
    ELSE IF wants_calendar(query) THEN << Step("schedule_meeting") >>
    ELSE DefaultPlan(query)

\* Variant: the error entry is looked for under the key "type".
IsErrorPlanByType(p) == p # << >> /\ Get(p[1], "type", "") = "error"

\* plan and plan[0].get("task_type") == "error" (line 335)
IsErrorPlan(p) == p # << >> /\ Get(p[1], "task_type", "") = "error"

\* ------------------------------------------------------------------------
\* Agents: BaseAgent and its subclasses
\* ------------------------------------------------------------------------
\* A value that is not a dict, a list or a str (an int).
NotAMapping == [__int__ |-> <<"5">>]
IsMapping(v) == "__int__" \notin DOMAIN v

Returned(value) == [raised |-> FALSE, value |-> value]
Raised(message) == [raised |-> TRUE, value |-> message]

\* FileAgent._execute_task
FileAgentTask(task) ==
    LET files == Get(task, "files", << >>)
        n == ToString(Len(files))
    IN IF files = << >>
       THEN Returned([status |-> "error",
                      summary |-> <<"No files provided for processing">>])
       ELSE Returned([summary |-> <<"Successfully processed", n, "file(s)">>,
                      results |-> [extracted_text |-> <<"Extracted", "content", "from", n, "file(s)">>,
                                   file_count |-> <<n>>,
                                   files_processed |-> files]])

\* ResearchAgent._execute_task
ResearchAgentTask(task) ==
    LET query == Get(task, "query", Get(task, "text_content", << >>))
    IN Returned([summary |-> <<"Researched">> \o query
                             \o <<"and found", "3", "relevant sources with key market insights">>,
                 results |-> [sources |-> <<"Source 1", "Source 2", "Source 3">>,
                              key_findings |-> <<"AI automation market growing at 30% CAGR",
                                                 "Key players include Microsoft, Google, Amazon",
                                                 "Market size expected to reach $50B by 2025">>]])

\* AnalysisAgent._execute_task; str(task) shows "key_findings" when it is a key.
\* Variant: the analysis reads extracted text only, never the query.
AnalysisAgentTaskExtractedOnly(task) ==
    LET text_content == Get(task, "extracted_text", << >>)
        word_count == ToString(Len(Split(text_content)))
    IN IF text_content = << >>
       THEN Returned([status |-> "error",
                      summary |-> <<"No content provided for analysis">>])
       ELSE Returned([summary |-> <<"Analyzed content", word_count,
                                    "words and identified key themes and insights">>,
                      results |-> [confidence |-> <<"0.85">>]])

AnalysisAgentTask(task) ==
    LET text_content == Get(task, "text_content", Get(task, "query", << >>))
        word_count == ToString(Len(Split(text_content)))
        summary == IF "key_findings" \in DOMAIN task
                   THEN <<"Created comprehensive competitive analysis report based on research findings.">>
                   ELSE <<"Analyzed content", word_count, "words and identified key themes and insights">>
    IN IF text_content = << >>
       THEN Returned([status |-> "error",
                      summary |-> <<"No content provided for analysis">>])
       ELSE Returned([summary |-> summary,
                      results |-> [analysis_type |-> IF KeywordIn("research", Lower(text_content))
                                                     THEN <<"competitive_analysis">>
                                                     ELSE <<"general_analysis">>,
                                   confidence |-> <<"0.85">>]])

\* SpotlightAgent._execute_task
SpotlightAgentTask(task) ==
    LET query == Get(task, "query", << >>)
    IN Returned([summary |-> <<"Searched system for">> \o query \o <<"and found 5 relevant items">>,
                 results |-> [items_found |-> <<"5">>, query |-> query]])

\* MailAgent._execute_task
MailAgentTask(task) ==
    Returned([summary |-> <<"Analyzed email inbox and found 10 important messages requiring attention">>,
              results |-> [important_emails |-> <<"10">>]])

\* CalendarAgent._execute_task
CalendarAgentTask(task) ==
    Returned([summary |-> <<"Found 3 available time slots for the requested meeting">>,
              results |-> [available_slots |-> <<"3">>]])

\* Other implementations of the abstract BaseAgent._execute_task: what a
\* registered handler may do.
RaisingTask(task) == Raised(<<"boom">>)
ReportingTask(task) ==
    Returned([status |-> "error", summary |-> <<"handler reported failure">>,
              message |-> <<"reported">>,
              results |-> [partial_output |-> <<"half">>]])
SilentTask(task) == Returned(EmptyDict)
PartialTask(task) ==
    Returned([status |-> "partial", summary |-> <<"partly done">>,
              results |-> [note |-> <<"n">>]])
OverwritingTask(task) ==
    Returned([summary |-> <<"rewrote">>,
              results |-> [query |-> <<"rewritten">>, extracted_text |-> << >>]])
BadResultsTask(task) ==
    Returned([summary |-> <<"odd">>, results |-> NotAMapping])

StubClasses == {"RaisingAgent", "ReportingAgent", "SilentAgent", "PartialAgent",
                "OverwritingAgent", "BadResultsAgent", "BrokenAgent"}

\* agent._execute_task(task), dispatched on the agent's class.
ExecuteTaskOf(agent, task) ==
    CASE agent.cls = "SpotlightAgent"   -> SpotlightAgentTask(task)
      [] agent.cls = "FileAgent"        -> FileAgentTask(task)
      [] agent.cls = "ResearchAgent"    -> ResearchAgentTask(task)
      [] agent.cls = "AnalysisAgent"    -> AnalysisAgentTask(task)
      [] agent.cls = "MailAgent"        -> MailAgentTask(task)
      [] agent.cls = "CalendarAgent"    -> CalendarAgentTask(task)
      [] agent.cls = "RaisingAgent"     -> RaisingTask(task)
      [] agent.cls = "ReportingAgent"   -> ReportingTask(task)
      [] agent.cls = "SilentAgent"      -> SilentTask(task)
      [] agent.cls = "PartialAgent"     -> PartialTask(task)
      [] agent.cls = "OverwritingAgent" -> OverwritingTask(task)
      [] agent.cls = "BadResultsAgent"  -> BadResultsTask(task)

\* Variant: no default summary is made up.
no_default_summary(task) == << >>

\* BaseAgent._generate_default_summary
generate_default_summary(task) ==
    <<"Successfully completed", Get(task, "task_type", "task"), "task">>

\* Variant: the except clause reports the failure without the exception's
\* text.
BaseExecuteSwallowing(agent, task) ==
    LET out == ExecuteTaskOf(agent, task)
    IN IF out.raised
       THEN [status |-> "error", summary |-> <<"Error in", agent.cls>>]
       ELSE out.value

\* BaseAgent.execute: the agent's result with summary and status guaranteed,
\* or the error dict built from the exception _execute_task raised.
BaseExecute(agent, task) ==
    LET out == ExecuteTaskOf(agent, task)
        result == out.value
        with_summary == IF Truthy(result, "summary") THEN result
                        ELSE SetItem(result, "summary", generate_default_summary(task))
        with_status == IF "status" \in DOMAIN with_summary /\ with_summary["status"] # ""
                       THEN with_summary
                       ELSE SetItem(with_summary, "status", "completed")
    IN IF out.raised
       THEN [status |-> "error",
             summary |-> <<"Error in", agent.cls>> \o out.value,
             message |-> out.value,
             details |-> <<"Traceback">>]
       ELSE with_status

\* agent.execute(task): BaseAgent.execute, except for a handler class that
\* brings its own execute and lets the exception out.
AgentExecute(agent, task) ==
    IF agent.cls = "BrokenAgent"
    THEN Raised(<<"broken">>)
    ELSE Returned(BaseExecute(agent, task))

\* agent.can_handle(task_type)
can_handle(agent, task_type) == task_type \in agent.handles

\* ------------------------------------------------------------------------
\* The registry: MultiAgentOrchestrator.agents, in insertion order
\* ------------------------------------------------------------------------
Agent(name, cls, handles) == [name |-> name, cls |-> cls, handles |-> handles]

\* MultiAgentOrchestrator.__init__
DefaultRegistry ==
    << Agent("spotlight", "SpotlightAgent", {"spotlight_search"}),
       Agent("file", "FileAgent", {"file_processing"}),
       Agent("research", "ResearchAgent", {"web_research"}),
       Agent("analysis", "AnalysisAgent", {"analysis"}),
       Agent("mail", "MailAgent", {"email_analysis"}),
       Agent("calendar", "CalendarAgent", {"schedule_meeting"}) >>

\* The default registry with the agent registered under `name` replaced by
\* an agent of another class declaring the same capability.
WithClass(name, cls) ==
    [k \in 1..Len(DefaultRegistry) |->
        IF DefaultRegistry[k].name = name
        THEN Agent(name, cls, DefaultRegistry[k].handles)
        ELSE DefaultRegistry[k]]

\* The default registry without the agent registered under `name`.
Without(name) == SelectSeq(DefaultRegistry, LAMBDA a : a.name # name)

\* The default registry with a second agent for analysis and file processing
\* registered first or last.
BackupAgent == Agent("backup", "SilentAgent", {"analysis", "file_processing"})

Registries ==
    {DefaultRegistry}
    \cup {WithClass(name, cls) : name \in {"file", "research", "analysis", "mail"},
                                 cls \in StubClasses}
    \cup {Without("analysis"), Without("calendar"), Without("research")}
    \cup {<<BackupAgent>> \o DefaultRegistry, DefaultRegistry \o <<BackupAgent>>}

\* Variant: the capable agents are listed newest registration first.
find_capable_agents_newest_first(registry, task_type) ==
    LET capable == SelectSeq(registry, LAMBDA a : can_handle(a, task_type))
    IN [k \in 1..Len(capable) |-> capable[Len(capable) + 1 - k].name]

\* MultiAgentOrchestrator.find_capable_agents: names in registration order.
find_capable_agents(registry, task_type) ==
    LET capable == SelectSeq(registry, LAMBDA a : can_handle(a, task_type))
    IN [k \in 1..Len(capable) |-> capable[k].name]

\* self.agents[agent_name]
AgentNamed(registry, name) ==
    CHOOSE a \in {registry[k] : k \in 1..Len(registry)} : a.name = name

\* Variant: a step without a capable agent is reported as skipped.
NoAgentResultSkipping(task_type) ==
    [status |-> "skipped",
     summary |-> <<"No agent available for task type:", task_type>>]

\* execute_task when no agent can handle the task type (lines 209-214).
NoAgentResult(task_type) ==
    [status |-> "error",
     summary |-> <<"No agent available for task type:", task_type>>,
     message |-> <<"Task type", task_type, "is not supported">>]

\* execute_task from the return of agent.execute on (lines 219-242).
AgentResult(registry, name, task) ==
    LET out == AgentExecute(AgentNamed(registry, name), task)
        result == out.value
        info == Get(result, "orchestrator_info", EmptyDict)
    IN IF out.raised
       THEN [status |-> "error",
             summary |-> <<"Agent", name, "failed:">> \o out.value,
             message |-> out.value,
             details |-> <<"Traceback">>,
             agent |-> name,
             task_type |-> task["task_type"]]
       ELSE SetItem(result, "orchestrator_info",
                    Update(info, [selected_agent |-> name,
                                  task_type |-> task["task_type"]]))

\* ------------------------------------------------------------------------
\* MultiAgentOrchestrator._error_response and execute_orchestration
\* ------------------------------------------------------------------------
\* Variant: the additional keyword arguments are not stored.
error_response_bare(summary, message, kwargs) ==
    [status |-> "error",
     summary |-> summary,
     message |-> message,
     query |-> Get(kwargs, "query", << >>),
     agents_executed |-> Get(kwargs, "agents_executed", << >>)]

error_response(summary, message, kwargs) ==
    LET response_ == [status |-> "error",
                      summary |-> summary,
                      message |-> message,
                      query |-> Get(kwargs, "query", << >>),
                      agents_executed |-> Get(kwargs, "agents_executed", << >>)]
        extra == DOMAIN kwargs \ {"query", "agents_executed"}
    IN IF extra # {}
       THEN SetItem(response_, "orchestration_metadata", [k \in extra |-> kwargs[k]])
       ELSE response_

\* Variant: the exception is raised again to the caller.
ExceptClauseReraising(message, d) ==
    [pc |-> "raised", response |-> EmptyDict]

\* The `except Exception` clause of execute_orchestration (lines 404-409):
\* how the call ends when its body raised.
ExceptClause(message, d) ==
    [pc |-> "done",
     response |-> error_response(<<"Orchestration failed">>, message,
                                 [query |-> Get(d, "query", << >>)])]

\* The successful return (lines 385-402).
CompletedResponse(q, p, executed, parts) ==
    [status |-> "completed",
     summary |-> IF parts # << >> THEN Join(parts)
                 ELSE <<"Completed", ToString(Len(executed)), "task(s) successfully">>,
     query |-> q,
     agents_executed |-> executed,
     orchestration_metadata |-> [plan |-> p,
                                 agents_executed |-> executed,
                                 was_chained |-> Len(executed) > 1]]

\* task_dict (lines 317-320) of a str or dict input.
Normalized(t) == IF t.type = "str" THEN [query |-> t.value] ELSE t.value

\* Variant: a text_content already in the context is kept.
StepInputKeeping(context, task_type, q) ==
    LET with_type == SetItem(context, "task_type", task_type)
    IN IF task_type = "analysis" /\ "text_content" \notin DOMAIN context
       THEN SetItem(with_type, "text_content", Get(context, "extracted_text", q))
       ELSE with_type

\* The input of a step (lines 350-357).
StepInput(context, task_type, q) ==
    LET with_type == SetItem(context, "task_type", task_type)
    IN IF task_type = "analysis"
       THEN SetItem(with_type, "text_content", Get(context, "extracted_text", q))
       ELSE with_type

\* result.get("orchestrator_info", {}).get("selected_agent", "unknown")
SelectedAgent(result) ==
    Get(Get(result, "orchestrator_info", EmptyDict), "selected_agent", "unknown")

\* agents_executed.append(agent_name) (lines 363-364)
TrackExecution(executed, result) == Append(executed, SelectedAgent(result))

\* Variant: the newest summary is put in front.
CollectSummaryPrepending(parts, result) ==
    IF Truthy(result, "summary") THEN <<result["summary"]>> \o parts ELSE parts

\* lines 367-368
CollectSummary(parts, result) ==
    IF Truthy(result, "summary") THEN Append(parts, result["summary"]) ELSE parts

\* Variant: every status other than "completed" stops the run.
StepFailedUnlessCompleted(result) ==
    "status" \in DOMAIN result /\ result["status"] # "completed"

\* Variant: the status is compared with "failed".
StepFailedOnFailed(result) == "status" \in DOMAIN result /\ result["status"] = "failed"

\* result.get("status") == "error" (line 371)
StepFailed(result) == "status" \in DOMAIN result /\ result["status"] = "error"

\* Variant: the loop index itself, counted from 0.
FailedStepFromZero(index) == index

\* failed_step=i + 1 (line 377)
FailedStep(index) == index + 1

\* Variant: the loop stays at the step it has just run.
NextStepRetrying(index) == index

\* enumerate(plan) moves on to the next step (line 347).
NextStep(index) == index + 1

\* Variant: the results replace the context instead of updating it.
MergeResultsReplacing(context, result) ==
    IF Truthy(result, "results") THEN result["results"] ELSE context

\* The context after a step that did not fail (lines 382-383).
MergeResults(context, result) ==
    IF Truthy(result, "results") THEN Update(context, result["results"]) ELSE context

\* Variant: the results are merged before the status is looked at.
ContextAtAbortMerged(context, result) == MergeResults(context, result)

\* The context when the loop returns on a failed step (lines 371-379): the
\* return comes before the update of lines 382-383.
ContextAtAbort(context, result) == context

\* execution_context.update raises for a value that is no mapping.
MergeRaises(result) == Truthy(result, "results") /\ ~IsMapping(result["results"])

\* ------------------------------------------------------------------------
\* State
\* ------------------------------------------------------------------------
VARIABLES
    agents,               \* self.agents, the registry
    pc,                   \* per run: "idle", "loop", "await", "done", "raised"
    task,                 \* per run: the caller's argument
    task_dict,            \* per run: locals of execute_orchestration ...
    query,
    plan,
    i,
    agents_executed,
    execution_context,
    final_summary_parts,
    current_task,
    agent_name,           \* per run: agent_name of execute_task (line 216)
    response,             \* per run: the value returned to the caller
    invoked,              \* per run: the agent.execute calls made, in order
    attempted,            \* per run: iterations of the step loop entered
    step_results          \* per run: what execute_task returned, per iteration

vars == <<agents, pc, task, task_dict, query, plan, i, agents_executed,
          execution_context, final_summary_parts, current_task, agent_name,
          response, invoked, attempted, step_results>>

NoTask == [type |-> "none", value |-> << >>]

\* Variant: the list lives on the orchestrator and is not reset per call.
LeftoverAgentsExecuted == agents_executed[1]

\* agents_executed = [] (line 343): every run starts its own list.
InitialAgentsExecuted == << >>

\* The step loop of one call run from step k+1 to its return with no other
\* call in flight (lines 347-409), as a function of the call's locals.
RECURSIVE LoopAlone(_, _, _, _, _, _, _, _)
LoopAlone(registry, d, q, p, k, executed, context, parts) ==
    IF k = Len(p)
    THEN CompletedResponse(q, p, executed, parts)
    ELSE LET task_type == p[k + 1].task_type
             input == StepInput(context, task_type, q)
             capable_agents == find_capable_agents(registry, task_type)
             result == IF capable_agents = << >>
                       THEN NoAgentResult(task_type)
                       ELSE AgentResult(registry, capable_agents[1], input)
             executed_ == TrackExecution(executed, result)
             parts_ == CollectSummary(parts, result)
         IN IF StepFailed(result)
            THEN error_response(Get(result, "summary", <<"Task failed">>),
                                Get(result, "message", <<"Unknown error">>),
                                [query |-> q,
                                 agents_executed |-> executed_,
                                 failed_step |-> FailedStep(k),
                                 plan |-> p])
            ELSE IF MergeRaises(result)
            THEN ExceptClause(<<"TypeError">>, d).response
            ELSE LoopAlone(registry, d, q, p, k + 1, executed_,
                           MergeResults(context, result), parts_)

\* execute_orchestration(t) run alone on an orchestrator with the given
\* registry: the result it returns (lines 313-409).
RunAlone(registry, t) ==
    IF t.type \notin {"str", "dict"}
    THEN error_response(<<"Invalid input type">>,
                        <<"Expected string or dict, got", t.type>>,
                        [query |-> t.value])
    ELSE LET d == Normalized(t)
             q == Get(d, "query", << >>)
             p == determine_intent(q, Truthy(d, "files"))
         IN IF IsErrorPlan(p)
            THEN error_response(Get(p[1], "message", <<"Invalid request">>),
                                <<"Request validation failed">>,
                                [query |-> q])
            ELSE LoopAlone(registry, d, q, p, 0, InitialAgentsExecuted, d, << >>)

\* The plan of execute_orchestration(t) run alone (line 332).
PlanAlone(t) ==
    LET d == Normalized(t)
    IN determine_intent(Get(d, "query", << >>), Truthy(d, "files"))

\* ------------------------------------------------------------------------
\* Inputs
\* ------------------------------------------------------------------------
Files == { << >>, <<"doc1.pdf">> }

\* Every query of at most MaxLen words.
BoundedQueries == UNION { [1..n -> Words] : n \in 0..MaxLen }

\* A dict request with a query and, optionally, files.
Request(q, files) == [query |-> q, files |-> files]

StrTask(q) == [type |-> "str", value |-> q]
DictTask(d) == [type |-> "dict", value |-> d]
\* An argument that is neither a str nor a dict; value is str(task).
OtherTask == [type |-> "other", value |-> <<"42">>]

\* The requests of the planner pool: every bounded query, with an empty or
\* a non-empty list of files.
PlanDicts == { Request(q, f) : q \in BoundedQueries, f \in Files }

\* The queries of the engine pool: one or two per outcome of the planner.
EngineQueries ==
    { << >>,
      <<"summarize">>,
      <<"summarize", "pdf">>,
      <<"Research", "fox">>,
      <<"Research", "fox", "summarize">>,
      <<"summarize", "fox", "fox", "fox">>,
      <<"email">>,
      <<"meeting", "the", "fox">>,
      <<"fox", "fox", "fox", "fox">>,
      <<"fox">> }

\* The dict requests of the engine pool: with and without files, with
\* auxiliary fields (among them an empty extracted_text), without a query.
EngineDicts ==
    { [query |-> q] : q \in EngineQueries }
    \cup { Request(q, f) : q \in EngineQueries, f \in Files }
    \cup { [query |-> q, text_content |-> <<"aux">>, user |-> <<"u1">>] : q \in EngineQueries }
    \cup { [query |-> q, extracted_text |-> << >>] : q \in EngineQueries }
    \cup { [files |-> <<"doc1.pdf">>] }

\* The arguments of the engine pool, by type.
StrTasks == { StrTask(q) : q \in EngineQueries }
DictTasks == { DictTask(d) : d \in EngineDicts }
OtherTasks == { OtherTask }

\* The arguments of the planner pool.
PlanTasks == { DictTask(d) : d \in PlanDicts }

\* The arguments of concurrent calls: one or two per shape of run (error
\* plan, one step, two steps, with files).
ConcQueries ==
    { <<"summarize">>,
      <<"email">>,
      <<"Research", "fox", "summarize">>,
      <<"summarize", "fox", "fox", "fox">> }
ConcStrTasks == { StrTask(q) : q \in ConcQueries }
ConcDictTasks ==
    { DictTask(Request(<< >>, <<"doc1.pdf">>)),
      DictTask(Request(<<"meeting", "the", "fox">>, << >>)) }

\* The registries of concurrent calls.
ConcRegistries ==
    { DefaultRegistry,
      WithClass("analysis", "RaisingAgent"),
      WithClass("research", "OverwritingAgent"),
      WithClass("file", "BadResultsAgent"),
      WithClass("mail", "BrokenAgent"),
      Without("analysis") }

\* ------------------------------------------------------------------------
\* Initial states
\* ------------------------------------------------------------------------
InitRuns ==
    /\ pc = [r \in Runs |-> "idle"]
    /\ task = [r \in Runs |-> NoTask]
    /\ task_dict = [r \in Runs |-> EmptyDict]
    /\ query = [r \in Runs |-> << >>]
    /\ plan = [r \in Runs |-> << >>]
    /\ i = [r \in Runs |-> 0]
    /\ agents_executed = [r \in Runs |-> << >>]
    /\ execution_context = [r \in Runs |-> EmptyDict]
    /\ final_summary_parts = [r \in Runs |-> << >>]
    /\ current_task = [r \in Runs |-> EmptyDict]
    /\ agent_name = [r \in Runs |-> ""]
    /\ response = [r \in Runs |-> EmptyDict]
    /\ invoked = [r \in Runs |-> << >>]
    /\ attempted = [r \in Runs |-> 0]
    /\ step_results = [r \in Runs |-> << >>]

Init == agents \in Registries /\ InitRuns

InitPlan == agents = DefaultRegistry /\ InitRuns

InitConc == agents \in ConcRegistries /\ InitRuns

\* ------------------------------------------------------------------------
\* Actions
\* ------------------------------------------------------------------------
\* Variant: the local is an attribute of the orchestrator, one for all runs.
SetShared(f, r, v) == [x \in DOMAIN f |-> v]

\* The local f of run r is bound to v.
Set(f, r, v) == [f EXCEPT ![r] = v]

\* execute_orchestration up to the step loop (lines 313-345): normalise the
\* argument, plan, return at once for an error plan.
Call(r, t) ==
    /\ pc[r] = "idle"
    /\ task' = Set(task, r, t)
    /\ UNCHANGED <<agents, current_task, agent_name, invoked, attempted,
                   step_results>>
    /\ IF t.type \notin {"str", "dict"}
       THEN /\ response' = Set(response, r,
                    error_response(<<"Invalid input type">>,
                                   <<"Expected string or dict, got", t.type>>,
                                   [query |-> t.value]))
            /\ pc' = Set(pc, r, "done")
            /\ UNCHANGED <<task_dict, query, plan, i, agents_executed,
                           execution_context, final_summary_parts>>
       ELSE LET d == Normalized(t)
                q == Get(d, "query", << >>)
                p == determine_intent(q, Truthy(d, "files"))
            IN /\ task_dict' = Set(task_dict, r, d)
               /\ query' = Set(query, r, q)
               /\ plan' = Set(plan, r, p)
               /\ IF IsErrorPlan(p)
                  THEN /\ response' = Set(response, r,
                               error_response(Get(p[1], "message", <<"Invalid request">>),
                                              <<"Request validation failed">>,
                                              [query |-> q]))
                       /\ pc' = Set(pc, r, "done")
                       /\ UNCHANGED <<i, agents_executed, execution_context,
                                      final_summary_parts>>
                  ELSE /\ agents_executed' = Set(agents_executed, r, InitialAgentsExecuted)
                       /\ execution_context' = Set(execution_context, r, d)
                       /\ final_summary_parts' = Set(final_summary_parts, r, << >>)
                       /\ i' = Set(i, r, 0)
                       /\ IF p = << >>
                          THEN /\ response' = Set(response, r,
                                       CompletedResponse(q, p, InitialAgentsExecuted, << >>))
                               /\ pc' = Set(pc, r, "done")
                          ELSE /\ pc' = Set(pc, r, "loop")
                               /\ UNCHANGED response

\* The rest of a loop iteration once execute_task has returned `result`
\* (lines 362-383), and the final return when the plan is exhausted
\* (lines 385-402).
\* Variant: no copies are taken, the context is the caller's dict itself.
TaskAfterStepAliased(t, context) ==
    IF t.type = "dict" THEN [t EXCEPT !.value = context] ELSE t

\* The caller's argument after a step (lines 320 and 344): task_dict is
\* task.copy() and execution_context is task_dict.copy(), so what the loop
\* writes into the context never reaches the caller's dict.
TaskAfterStep(t, context) == t

ProcessResult(r, result) ==
    LET executed == TrackExecution(agents_executed[r], result)
        parts == CollectSummary(final_summary_parts[r], result)
        context == MergeResults(execution_context[r], result)
        raised == ExceptClause(<<"TypeError">>, task_dict[r])
        written == IF StepFailed(result)
                   THEN ContextAtAbort(execution_context[r], result)
                   ELSE IF MergeRaises(result) THEN execution_context[r]
                   ELSE context
    IN /\ step_results' = Set(step_results, r, Append(step_results[r], result))
       /\ task' = Set(task, r, TaskAfterStep(task[r], written))
       /\ agents_executed' = Set(agents_executed, r, executed)
       /\ final_summary_parts' = Set(final_summary_parts, r, parts)
       /\ IF StepFailed(result)
          THEN /\ response' = Set(response, r,
                       error_response(Get(result, "summary", <<"Task failed">>),
                                      Get(result, "message", <<"Unknown error">>),
                                      [query |-> query[r],
                                       agents_executed |-> executed,
                                       failed_step |-> FailedStep(i[r]),
                                       plan |-> plan[r]]))
               /\ pc' = Set(pc, r, "done")
               /\ execution_context' = Set(execution_context, r,
                       ContextAtAbort(execution_context[r], result))
               /\ UNCHANGED i
          ELSE IF MergeRaises(result)
          THEN /\ response' = Set(response, r, raised.response)
               /\ pc' = Set(pc, r, raised.pc)
               /\ UNCHANGED <<execution_context, i>>
          ELSE /\ execution_context' = Set(execution_context, r, context)
               /\ i' = Set(i, r, NextStep(i[r]))
               /\ IF NextStep(i[r]) = Len(plan[r])
                  THEN /\ response' = Set(response, r,
                               CompletedResponse(query[r], plan[r], executed, parts))
                       /\ pc' = Set(pc, r, "done")
                  ELSE /\ pc' = Set(pc, r, "loop")
                       /\ UNCHANGED response

\* One loop iteration up to the await of agent.execute (lines 347-360 and
\* execute_task lines 196-220).  Without a capable agent execute_task
\* returns at once and the iteration runs to its end.
StartStep(r) ==
    /\ pc[r] = "loop"
    /\ LET task_type == plan[r][i[r] + 1].task_type
           input == StepInput(execution_context[r], task_type, query[r])
           capable_agents == find_capable_agents(agents, task_type)
       IN /\ current_task' = Set(current_task, r, input)
          /\ attempted' = Set(attempted, r, attempted[r] + 1)
          /\ IF capable_agents = << >>
             THEN /\ ProcessResult(r, NoAgentResult(task_type))
                  /\ UNCHANGED <<agent_name, invoked>>
             ELSE /\ agent_name' = Set(agent_name, r, capable_agents[1])
                  /\ invoked' = Set(invoked, r,
                          Append(invoked[r], [step |-> i[r] + 1,
                                              agent |-> capable_agents[1],
                                              input |-> input]))
                  /\ pc' = Set(pc, r, "await")
                  /\ UNCHANGED <<i, agents_executed, execution_context,
                                 final_summary_parts, response, step_results,
                                 task>>
    /\ UNCHANGED <<agents, task_dict, query, plan>>

\* agent.execute returns or raises; the iteration runs to its end.
FinishStep(r) ==
    /\ pc[r] = "await"
    /\ ProcessResult(r, AgentResult(agents, agent_name[r], current_task[r]))
    /\ UNCHANGED <<agents, task_dict, query, plan, current_task,
                   agent_name, invoked, attempted>>

\* The first call, with any argument of the engine pool.
Submit ==
    \/ \E t \in StrTasks : Call(1, t)
    \/ \E t \in DictTasks : Call(1, t)
    \/ \E t \in OtherTasks : Call(1, t)

\* The first call, with any request of the planner pool.
SubmitPlan == \E t \in PlanTasks : Call(1, t)

\* A later call repeats the argument of the call before it, once that call
\* is over.
Repeat(r) ==
    /\ r > 1
    /\ pc[r - 1] \in {"done", "raised"}
    /\ Call(r, task[r - 1])

Next ==
    \/ Submit
    \/ \E r \in Runs : Repeat(r)
    \/ \E r \in Runs : StartStep(r)
    \/ \E r \in Runs : FinishStep(r)

NextPlan ==
    \/ SubmitPlan
    \/ \E r \in Runs : StartStep(r)
    \/ \E r \in Runs : FinishStep(r)

\* A call made while other calls may be in flight.
Begin(r) ==
    \/ \E t \in ConcStrTasks : Call(r, t)
    \/ \E t \in ConcDictTasks : Call(r, t)

\* Calls on one orchestrator whose awaits interleave in any order: asyncio
\* runs each coroutine from one await to the next without preemption.
NextConc ==
    \/ \E r \in Runs : Begin(r)
    \/ \E r \in Runs : StartStep(r)
    \/ \E r \in Runs : FinishStep(r)

Spec == Init /\ [][Next]_vars

SpecConc == InitConc /\ [][NextConc]_vars

\* The event loop resumes every coroutine that can run, and every handler
\* invocation eventually returns or raises.
Fairness ==
    \A r \in Runs : WF_vars(StartStep(r)) /\ WF_vars(FinishStep(r))

SpecLive == InitConc /\ [][NextConc]_vars /\ Fairness

SpecPlan == InitPlan /\ [][NextPlan]_vars

\* ------------------------------------------------------------------------
\* Properties
\* ------------------------------------------------------------------------
\* The run has been called.
Started(r) == pc[r] # "idle"
\* The run has returned a result to its caller.
Returned_(r) == pc[r] = "done"
\* A step result that reports an error.
HasErrorStatus(result) == Get(result, "status", "") = "error"
\* The planner's answer is an error plan.
PlanIsError(p) == Len(p) >= 1 /\ p[1].task_type = "error"
\* The request of the run came with attachments.
HasAttachments(r) == Truthy(task_dict[r], "files")
\* The steps for which a handler was invoked.
InvokedSteps(r) == { invoked[r][k].step : k \in 1..Len(invoked[r]) }

\* C1: fail-fast.  Once the result of step k, k not the last step of the
\* plan, has status "error", the loop has entered no later iteration, no
\* handler has been invoked for a step after k, and the run has returned
\* status "error".
C1_FailFast ==
    \A r \in Runs : \A k \in 1..Len(step_results[r]) :
        (HasErrorStatus(step_results[r][k]) /\ k < Len(plan[r]))
        => /\ Len(step_results[r]) = k
           /\ attempted[r] = k
           /\ \A s \in InvokedSteps(r) : s <= k
           /\ Returned_(r)
           /\ response[r]["status"] = "error"

\* A run whose first step of a two-step plan reported an error after its
\* handler ran.
C1_Witness ==
    \E r \in Runs :
        /\ Len(plan[r]) = 2
        /\ Len(step_results[r]) = 1
        /\ HasErrorStatus(step_results[r][1])
        /\ InvokedSteps(r) = {1}
        /\ Returned_(r)

\* C2: when step k (counted from 1) fails, the error result's metadata
\* reports failed step k, k is the length of agents_executed in the result,
\* and the metadata carries the planner's plan.
C2_FailedStepIndex ==
    \A r \in Runs :
        LET k == Len(step_results[r])
        IN (k >= 1 /\ HasErrorStatus(step_results[r][k]))
           => /\ Returned_(r)
              /\ "orchestration_metadata" \in DOMAIN response[r]
              /\ response[r]["orchestration_metadata"]["failed_step"] = k
              /\ Len(response[r]["agents_executed"]) = k
              /\ k = attempted[r]
              /\ response[r]["orchestration_metadata"]["plan"] = plan[r]
              /\ plan[r] = determine_intent(query[r], HasAttachments(r))

\* A run that failed at the second step of its plan.
C2_Witness ==
    \E r \in Runs :
        /\ Len(step_results[r]) = 2
        /\ HasErrorStatus(step_results[r][2])
        /\ Returned_(r)

\* C3: when the planner returns an error plan, no handler is invoked, no
\* step is attempted, and the run returns status "error" with the error
\* plan's message as summary and an empty agents_executed.
C3_ErrorPlanShortCircuits ==
    \A r \in Runs :
        PlanIsError(plan[r])
        => /\ invoked[r] = << >>
           /\ attempted[r] = 0
           /\ Returned_(r)
           /\ response[r]["status"] = "error"
           /\ response[r]["summary"] = plan[r][1].message
           /\ response[r]["agents_executed"] = << >>

\* A run that returned on an error plan.
C3_Witness ==
    \E r \in Runs : PlanIsError(plan[r]) /\ Returned_(r)

\* C4: a request without attachments whose query contains file vocabulary
\* gets an error plan, whatever other vocabulary the query matches, and the
\* run's agents_executed is empty.
C4_FileWithoutAttachment ==
    \A r \in Runs :
        (Started(r) /\ ~HasAttachments(r)
         /\ AnyKeywordIn(file_keywords, Lower(query[r])))
        => /\ PlanIsError(plan[r])
           /\ Returned_(r)
           /\ response[r]["agents_executed"] = << >>
           /\ agents_executed[r] = << >>

\* A returned run without attachments whose query has file vocabulary
\* together with analysis, research and messaging vocabulary.
C4_Witness ==
    \E r \in Runs :
        /\ Returned_(r) /\ ~HasAttachments(r)
        /\ AnyKeywordIn(file_keywords, Lower(query[r]))
        /\ AnyKeywordIn(analysis_keywords, Lower(query[r]))
        /\ AnyKeywordIn(research_keywords, Lower(query[r]))
        /\ AnyKeywordIn(email_keywords, Lower(query[r]))

\* The residual content of a query: its lower-case words that are neither
\* analysis command words nor articles.
Residual(q) ==
    SelectSeq(Lower(q), LAMBDA w : w \notin (analysis_keywords \cup articles))

C6_AttachmentPlan ==
    \A r \in Runs :
        (Started(r) /\ HasAttachments(r))
        => /\ plan[r] = IF AnyKeywordIn(analysis_keywords, Lower(query[r]))
                           \/ query[r] = << >>
                        THEN << [task_type |-> "file_processing"],
                                [task_type |-> "analysis"] >>
                        ELSE << [task_type |-> "file_processing"] >>
           /\ invoked[r] # << >>
              => invoked[r][1].input["task_type"] = "file_processing"
           /\ \A k \in 1..Len(invoked[r]) :
                invoked[r][k].input["task_type"] \in {"file_processing", "analysis"}

\* A completed run with attachments and an empty query: two steps ran.
C6_Witness ==
    \E r \in Runs :
        /\ Returned_(r) /\ HasAttachments(r) /\ query[r] = << >>
        /\ Len(invoked[r]) = 2

\* C7: idempotence.  A call repeated with the identical argument on the
\* same orchestrator returns the same plan, agents_executed, status and
\* summary as the call before it.
C7_Idempotence ==
    \A r \in Runs :
        (r > 1 /\ Returned_(r) /\ Returned_(r - 1)
         /\ task[r].type = task[r - 1].type /\ task[r].value = task[r - 1].value)
        => /\ plan[r] = plan[r - 1]
           /\ response[r]["agents_executed"] = response[r - 1]["agents_executed"]
           /\ response[r]["status"] = response[r - 1]["status"]
           /\ response[r]["summary"] = response[r - 1]["summary"]

\* A repeated call that completed a two-step plan.
C7_Witness ==
    \E r \in Runs :
        /\ r > 1 /\ Returned_(r)
        /\ response[r]["status"] = "completed"
        /\ Len(response[r]["agents_executed"]) = 2

\* The fields a step result contributes to the context.
ResultFields(result) ==
    IF "results" \in DOMAIN result THEN result["results"] ELSE EmptyDict

\* The request fields overlaid with the result fields of steps 1..k, a
\* later value replacing an earlier one of the same name.
RECURSIVE ExpectedContext(_, _, _)
ExpectedContext(d, results, k) ==
    IF k = 0 THEN d
    ELSE LET before == ExpectedContext(d, results, k - 1)
             fields == ResultFields(results[k])
         IN [key \in DOMAIN before \cup DOMAIN fields |->
                IF key \in DOMAIN fields THEN fields[key] ELSE before[key]]

\* The run has entered its step loop.
InLoop(r) == pc[r] \in {"loop", "await"} \/ (Returned_(r) /\ attempted[r] > 0)

\* After step i of a run succeeded the context holds every request field
\* and every result field of steps 1..i, with the latest value, and every
\* handler input holds the fields of the steps before it.
C8_ContextHolds ==
    \A r \in Runs :
        LET expected == ExpectedContext(task_dict[r], step_results[r], i[r])
        IN InLoop(r) =>
           /\ \A key \in DOMAIN expected :
                /\ key \in DOMAIN execution_context[r]
                /\ execution_context[r][key] = expected[key]
           /\ i[r] <= Len(step_results[r])
           /\ \A n \in 1..Len(invoked[r]) :
                LET before == ExpectedContext(task_dict[r], step_results[r],
                                              invoked[r][n].step - 1)
                IN /\ DOMAIN before \subseteq DOMAIN invoked[r][n].input
                   /\ \A key \in DOMAIN before \ {"task_type", "text_content"} :
                        invoked[r][n].input[key] = before[key]

\* No step of a run removes a key from its context.
C8_NoKeyRemoved ==
    \A r \in Runs : DOMAIN execution_context[r] \subseteq DOMAIN execution_context'[r]

\* C8: monotonic context and chaining.  The context of a run only gains or
\* overwrites keys; after step k succeeds it holds every field of the
\* request and every result field of steps 1..k, a later value replacing
\* an earlier one; the input of step k+1 contains all these fields.
C8_MonotonicContext == [](C8_ContextHolds) /\ [][C8_NoKeyRemoved]_vars

\* A second step is awaited whose input carries a request field that the
\* first step's results overwrote.
C8_Witness ==
    \E r \in Runs :
        /\ pc[r] = "await" /\ i[r] = 1
        /\ "query" \in DOMAIN task_dict[r]
        /\ "query" \in DOMAIN ResultFields(step_results[r][1])
        /\ current_task[r]["query"] # task_dict[r]["query"]

\* C9 as stated: in every returned result the length of agents_executed is
\* the number of plan steps attempted in the run.
C9_Original ==
    \A r \in Runs :
        Returned_(r) => Len(response[r]["agents_executed"]) = attempted[r]

\* C10: no fault escapes.  Whatever the argument and whatever a handler
\* does (returns, reports status "error", raises an Exception in
\* _execute_task or in execute, returns results that cannot be merged),
\* the call never ends by raising, and a returned result has status
\* "completed" or "error".
C10_NoFaultEscapes ==
    \A r \in Runs :
        /\ pc[r] # "raised"
        /\ Returned_(r) => response[r]["status"] \in {"completed", "error"}

\* A run that returned through the except clause of execute_orchestration
\* after a handler had been invoked.
C10_Witness ==
    \E r \in Runs :
        /\ Returned_(r)
        /\ invoked[r] # << >>
        /\ response[r]["summary"] = <<"Orchestration failed">>

\* The handler call raises: in _execute_task, or in an execute of its own.
HandlerRaises(agent, input) ==
    AgentExecute(agent, input).raised \/ ExecuteTaskOf(agent, input).raised
\* str(e) of the exception the handler call raises.
FaultText(agent, input) ==
    IF AgentExecute(agent, input).raised
    THEN AgentExecute(agent, input).value
    ELSE ExecuteTaskOf(agent, input).value
\* The last handler call of the run.
LastInvoked(r) == invoked[r][Len(invoked[r])]
\* The last handler call of the run is over and it raised.
HandlerRaised(r) ==
    /\ invoked[r] # << >>
    /\ Len(step_results[r]) = LastInvoked(r).step
    /\ HandlerRaises(AgentNamed(agents, LastInvoked(r).agent), LastInvoked(r).input)
\* The fault text of the last handler call of the run.
LastFault(r) ==
    FaultText(AgentNamed(agents, LastInvoked(r).agent), LastInvoked(r).input)
\* The metadata of a result; the empty dict when it has none.
Metadata(result) == Get(result, "orchestration_metadata", EmptyDict)

ReturnedError(r) == Returned_(r) /\ response[r]["status"] = "error"
\* The result of the last step the run finished.
LastResult(r) == step_results[r][Len(step_results[r])]
\* The run ended at a step whose result has status "error" (no capable
\* handler, handler fault, handler-reported error).
EndedAtFailedStep(r) == step_results[r] # << >> /\ HasErrorStatus(LastResult(r))

UniformFields == {"status", "summary", "query", "agents_executed"}
\* The class of the handler of the n-th handler call of the run.
InvokedClass(r, n) == AgentNamed(agents, invoked[r][n].agent).cls
\* The n-th handler call of the run is over.
CallOver(r, n) == invoked[r][n].step <= Len(step_results[r])

\* C13: uniform result shape.  Every returned result, on every path, has
\* the fields status, summary, query and agents_executed, with a non-empty
\* summary; every step result has a non-empty summary and a status, and
\* for a handler that returned neither they are the default summary of
\* its task type and "completed".
C13_UniformShape ==
    \A r \in Runs :
        /\ Returned_(r)
           => /\ UniformFields \subseteq DOMAIN response[r]
              /\ response[r]["summary"] # << >>
        /\ \A k \in 1..Len(step_results[r]) :
              /\ Truthy(step_results[r][k], "summary")
              /\ Get(step_results[r][k], "status", "") # ""
        /\ \A n \in 1..Len(invoked[r]) :
              (CallOver(r, n) /\ InvokedClass(r, n) = "SilentAgent")
              => LET result == step_results[r][invoked[r][n].step]
                 IN /\ result["status"] = "completed"
                    /\ result["summary"] = <<"Successfully completed",
                                              invoked[r][n].input["task_type"], "task">>

\* A run that completed with one step whose handler returned an empty
\* dict: the result's summary is the default summary.
C13_Witness ==
    \E r \in Runs :
        /\ Returned_(r) /\ response[r]["status"] = "completed"
        /\ Len(invoked[r]) = 1 /\ InvokedClass(r, 1) = "SilentAgent"
        /\ response[r]["summary"]
             = <<"Successfully completed", invoked[r][1].input["task_type"], "task">>

\* A step succeeded: its result does not report an error and its results
\* could be merged into the context.
StepSucceeded(result) == ~HasErrorStatus(result) /\ ~MergeRaises(result)
\* Every step of the run's plan has been executed and succeeded.
AllStepsSucceeded(r) ==
    /\ Len(plan[r]) >= 1 /\ ~PlanIsError(plan[r])
    /\ Len(step_results[r]) = Len(plan[r])
    /\ \A k \in 1..Len(step_results[r]) : StepSucceeded(step_results[r][k])
\* The summaries of the executed steps, in the order of execution.
StepSummaries(r) == [k \in 1..Len(step_results[r]) |-> step_results[r][k]["summary"]]

\* C14: when all steps succeed, the run returns status "completed" and
\* its summary is the summaries of the executed steps, one per plan step,
\* joined in plan order.
C14_CompletedSummary ==
    \A r \in Runs :
        AllStepsSucceeded(r)
        => /\ Returned_(r)
           /\ response[r]["status"] = "completed"
           /\ response[r]["summary"] = Join(StepSummaries(r))
           /\ \A k \in 1..Len(plan[r]) :
                Get(step_results[r][k], "orchestrator_info", EmptyDict)["task_type"]
                    = plan[r][k].task_type

\* A run that completed a two-step plan whose steps gave different
\* summaries.
C14_Witness ==
    \E r \in Runs :
        /\ AllStepsSucceeded(r) /\ Len(plan[r]) = 2
        /\ step_results[r][1]["summary"] # step_results[r][2]["summary"]
        /\ response[r]["status"] = "completed"

\* The query of the run matches research vocabulary and the request has
\* neither attachments nor file vocabulary.
ResearchRequest(r) ==
    /\ Started(r) /\ ~HasAttachments(r)
    /\ ~AnyKeywordIn(file_keywords, Lower(query[r]))
    /\ AnyKeywordIn(research_keywords, Lower(query[r]))

\* C15: without attachments and file vocabulary, a query matching
\* research vocabulary is planned as [web_research, analysis] when it also
\* matches report/analysis vocabulary and as [web_research] otherwise,
\* whatever else it matches.
C15_ResearchPlan ==
    \A r \in Runs :
        ResearchRequest(r)
        => plan[r] = IF AnyKeywordIn(analysis_keywords \cup {"report"}, Lower(query[r]))
                     THEN << [task_type |-> "web_research"], [task_type |-> "analysis"] >>
                     ELSE << [task_type |-> "web_research"] >>

\* A returned run whose query matches research, analysis and messaging
\* vocabulary and whose two steps, research and analysis, both ran.
C15_Witness ==
    \E r \in Runs :
        /\ ResearchRequest(r) /\ Returned_(r)
        /\ AnyKeywordIn(analysis_keywords, Lower(query[r]))
        /\ AnyKeywordIn(email_keywords, Lower(query[r]))
        /\ Len(invoked[r]) = 2
        /\ invoked[r][1].input["task_type"] = "web_research"
        /\ invoked[r][2].input["task_type"] = "analysis"

\* The request has no attachments and its query matches messaging or
\* scheduling vocabulary and no file, research or analysis vocabulary.
MessagingOrSchedulingRequest(r) ==
    /\ Started(r) /\ ~HasAttachments(r)
    /\ ~AnyKeywordIn(file_keywords \cup research_keywords \cup analysis_keywords,
                     Lower(query[r]))
    /\ AnyKeywordIn(email_keywords \cup calendar_keywords, Lower(query[r]))

\* C16: such a request is planned as exactly one step, email_analysis
\* when messaging vocabulary matches (scheduling vocabulary or not) and
\* schedule_meeting otherwise; one handler is invoked, 'mail' or 'calendar'
\* respectively, and the returned agents_executed names it alone.
C16_SingleStepPlan ==
    \A r \in Runs :
        MessagingOrSchedulingRequest(r)
        => LET messaging == AnyKeywordIn(email_keywords, Lower(query[r]))
               handler == IF messaging THEN "mail" ELSE "calendar"
           IN /\ plan[r] = IF messaging
                           THEN << [task_type |-> "email_analysis"] >>
                           ELSE << [task_type |-> "schedule_meeting"] >>
              /\ \A n \in 1..Len(invoked[r]) : n = 1 /\ invoked[r][n].agent = handler
              /\ Returned_(r)
                 => /\ Len(invoked[r]) = 1
                    /\ response[r]["status"] = "completed"
                    /\ response[r]["agents_executed"] = <<handler>>

\* A returned run for a query with scheduling and no messaging vocabulary:
\* agents_executed is ['calendar'].
C16_Witness ==
    \E r \in Runs :
        /\ MessagingOrSchedulingRequest(r) /\ Returned_(r)
        /\ ~AnyKeywordIn(email_keywords, Lower(query[r]))
        /\ response[r]["agents_executed"] = <<"calendar">>

\* The locals of a run.
Locals(r) ==
    <<pc[r], task[r], task_dict[r], query[r], plan[r], i[r], agents_executed[r],
      execution_context[r], final_summary_parts[r], current_task[r],
      agent_name[r], response[r], invoked[r], attempted[r], step_results[r]>>

\* What a returned run delivered is what the same call delivers alone.
C17_SameAsAlone ==
    \A r \in Runs :
        /\ Started(r) => plan[r] = PlanAlone(task[r])
        /\ Returned_(r)
           => LET alone == RunAlone(agents, task[r])
              IN /\ response[r]["agents_executed"] = alone["agents_executed"]
                 /\ response[r]["status"] = alone["status"]
                 /\ response[r]["summary"] = alone["summary"]

\* No run reads another run's context: the input of every handler call of
\* a run is made from the run's own request and its own step results.
C17_ReadsOwnContext ==
    \A r \in Runs : \A n \in 1..Len(invoked[r]) :
        invoked[r][n].input
            = StepInput(ExpectedContext(task_dict[r], step_results[r],
                                        invoked[r][n].step - 1),
                        plan[r][invoked[r][n].step].task_type, query[r])

\* No run writes another run's context: a step changes the locals of one
\* run only, and a context changes only in a step of its own run (its
\* call, or the end of one of its loop iterations).
C17_WritesOwnContext ==
    \A r \in Runs :
        /\ Locals(r)' # Locals(r)
           => \A other \in Runs \ {r} : Locals(other)' = Locals(other)
        /\ execution_context'[r] # execution_context[r]
           => \/ pc[r] = "idle" /\ pc'[r] # "idle"
              \/ Len(step_results'[r]) = Len(step_results[r]) + 1

\* C17: concurrent runs are independent.  For runs of one orchestrator
\* whose handler awaits interleave in any order, each run's plan,
\* agents_executed, status and summary are those the run produces alone,
\* and no run reads or writes another run's execution context.
C17_Independence ==
    /\ [](C17_SameAsAlone /\ C17_ReadsOwnContext)
    /\ [][C17_WritesOwnContext]_vars

\* Two runs with different queries, each awaiting the handler of its
\* second step, with contexts of different fields.
C17_Witness ==
    \E r, other \in Runs :
        /\ r # other
        /\ pc[r] = "await" /\ pc[other] = "await"
        /\ i[r] = 1 /\ i[other] = 1
        /\ query[r] # query[other]
        /\ DOMAIN execution_context[r] # DOMAIN execution_context[other]

\* At most one handler call per plan step, none for a step that already
\* had one, and no more loop iterations than the plan has steps.
C18_OneCallPerStep ==
    \A r \in Runs :
        /\ \A n, m \in 1..Len(invoked[r]) :
              n < m => invoked[r][n].step < invoked[r][m].step
        /\ \A n \in 1..Len(invoked[r]) : invoked[r][n].step \in 1..Len(plan[r])
        /\ attempted[r] <= Len(plan[r])

\* A call that has returned stays returned, with the result it delivered.
C18_ResultKept ==
    \A r \in Runs :
        Returned_(r) => Returned_(r)' /\ response'[r] = response[r]

\* Every call eventually returns a result.
C18_Delivers == \A r \in Runs : Started(r) ~> (Returned_(r) /\ "status" \in DOMAIN response[r])

\* C18: termination without retries.  Given that every handler invocation
\* eventually returns or raises, every call eventually delivers exactly one
\* result, after at most one handler invocation per plan step and no
\* second invocation for any step.
C18_Termination ==
    /\ C18_Delivers
    /\ [](C18_OneCallPerStep)
    /\ [][C18_ResultKept]_vars

\* Both of two concurrent calls have returned, one of them after handler
\* invocations for both steps of its plan.
C18_Witness ==
    \E r, other \in Runs :
        /\ r # other /\ Returned_(r) /\ Returned_(other)
        /\ Len(plan[r]) = 2 /\ Len(invoked[r]) = 2

\* The task types the planner can put into a plan.
TaskTypes == {"file_processing", "web_research", "analysis", "email_analysis",
              "schedule_meeting"}
\* The positions in the registry of the handlers capable of a task type.
CapablePositions(task_type) ==
    { k \in 1..Len(agents) : task_type \in agents[k].handles }
\* The position in the registry of the handler registered under a name.
PositionOf(name) == CHOOSE k \in 1..Len(agents) : agents[k].name = name
\* The first capable handler in registration order.
FirstCapable(task_type) ==
    agents[CHOOSE k \in CapablePositions(task_type) :
              \A other \in CapablePositions(task_type) : k <= other].name

\* C19: for each attempted step with a capable handler exactly one
\* handler call is made, to the first handler in registration order that
\* can handle the step's task type, and its result is the step's result
\* (several capable handlers are no error); find_capable_agents lists
\* exactly the capable handlers, in registration order.
C19_FirstCapableOnly ==
    /\ \A r \in Runs :
          /\ \A s \in 1..attempted[r] :
                CapablePositions(plan[r][s].task_type) # {}
                => Cardinality({ n \in 1..Len(invoked[r]) : invoked[r][n].step = s }) = 1
          /\ \A n \in 1..Len(invoked[r]) :
                LET task_type == plan[r][invoked[r][n].step].task_type
                IN /\ invoked[r][n].input["task_type"] = task_type
                   /\ CapablePositions(task_type) # {}
                   /\ invoked[r][n].agent = FirstCapable(task_type)
                   /\ CallOver(r, n)
                      => step_results[r][invoked[r][n].step]
                           = AgentResult(agents, FirstCapable(task_type), invoked[r][n].input)
    /\ \A task_type \in TaskTypes :
          LET names == find_capable_agents(agents, task_type)
          IN /\ Len(names) = Cardinality(CapablePositions(task_type))
             /\ { names[k] : k \in 1..Len(names) }
                  = { agents[k].name : k \in CapablePositions(task_type) }
             /\ \A j, k \in 1..Len(names) :
                   j < k => PositionOf(names[j]) < PositionOf(names[k])

\* A completed run whose analysis step had two capable handlers and went
\* to 'backup', the one registered first.
C19_Witness ==
    \E r \in Runs : \E n \in 1..Len(invoked[r]) :
        /\ Returned_(r) /\ response[r]["status"] = "completed"
        /\ Cardinality(CapablePositions(invoked[r][n].input["task_type"])) = 2
        /\ invoked[r][n].agent = "backup"
        /\ invoked[r][n].input["task_type"] = "analysis"

\* C20 as stated: for every step whose handler call is over, returned,
\* failed or raised, the entry of agents_executed for the step is the name
\* of the handler that was selected and invoked.
C20_Original ==
    \A r \in Runs : \A n \in 1..Len(invoked[r]) :
        CallOver(r, n)
        => /\ Len(agents_executed[r]) >= invoked[r][n].step
           /\ agents_executed[r][invoked[r][n].step] = invoked[r][n].agent

\* C21: if no registered handler can handle the task type of an attempted
\* step, no handler is invoked for the step, the run returns at that step
\* with status "error", a summary naming the task type, and the failed step
\* index and the plan in the metadata, and no later step runs.
C21_NoCapableHandler ==
    \A r \in Runs : \A s \in 1..attempted[r] :
        CapablePositions(plan[r][s].task_type) = {}
        => /\ \A n \in 1..Len(invoked[r]) : invoked[r][n].step < s
           /\ attempted[r] = s
           /\ Len(step_results[r]) = s
           /\ ReturnedError(r)
           /\ response[r]["summary"]
                = <<"No agent available for task type:", plan[r][s].task_type>>
           /\ Metadata(response[r])["failed_step"] = s
           /\ Metadata(response[r])["plan"] = plan[r]

\* A run with a two-step plan that returned at its first step, for whose
\* task type no handler is registered.
C21_Witness ==
    \E r \in Runs :
        /\ Len(plan[r]) = 2 /\ attempted[r] = 1
        /\ CapablePositions(plan[r][1].task_type) = {}
        /\ invoked[r] = << >>
        /\ ReturnedError(r)

\* The context of the run when its n-th handler call was made: the request
\* overlaid with the results of the steps before.
ContextAt(r, n) ==
    ExpectedContext(task_dict[r], step_results[r], invoked[r][n].step - 1)

\* C22: the input of every handler call is the current context with the
\* step's task type added; for an analysis step text_content is bound to
\* the context's extracted_text if the context has one and to the original
\* query otherwise, whatever text_content the context holds; for another
\* step a text_content of the context is passed on as it is.
C22_StepInput ==
    \A r \in Runs : \A n \in 1..Len(invoked[r]) :
        LET context == ContextAt(r, n)
            input == invoked[r][n].input
            task_type == plan[r][invoked[r][n].step].task_type
            bound == IF task_type = "analysis"
                     THEN {"task_type", "text_content"} ELSE {"task_type"}
        IN /\ DOMAIN input = DOMAIN context \cup bound
           /\ \A key \in DOMAIN context \ bound : input[key] = context[key]
           /\ input["task_type"] = task_type
           /\ task_type = "analysis"
              => input["text_content"]
                   = IF "extracted_text" \in DOMAIN context
                     THEN context["extracted_text"] ELSE query[r]

\* An analysis handler was called with the query as text_content although
\* the request carried a text_content of its own.
C22_Witness ==
    \E r \in Runs : \E n \in 1..Len(invoked[r]) :
        /\ invoked[r][n].input["task_type"] = "analysis"
        /\ "text_content" \in DOMAIN task_dict[r]
        /\ invoked[r][n].input["text_content"] = query[r]
        /\ invoked[r][n].input["text_content"] # task_dict[r]["text_content"]

\* C23 as stated, for the registry of __init__: in every run with a
\* non-error plan, whatever fields the request carries, the analysis
\* handler is never invoked with an empty text_content and never answers
\* 'No content provided for analysis'.
C23_Original ==
    \A r \in Runs : \A n \in 1..Len(invoked[r]) :
        (agents = DefaultRegistry
         /\ invoked[r][n].input["task_type"] = "analysis")
        => /\ invoked[r][n].input["text_content"] # << >>
           /\ CallOver(r, n)
              => step_results[r][invoked[r][n].step]["summary"]
                   # <<"No content provided for analysis">>

\* C24: no partial merge.  When the run ends at a step whose result has
\* status "error", the context is the request overlaid with the results of
\* the steps before it, and holds none of the failed result's output
\* fields unless an earlier step or the request had set it.
C24_NoPartialMerge ==
    \A r \in Runs :
        EndedAtFailedStep(r)
        => LET before == ExpectedContext(task_dict[r], step_results[r],
                                         Len(step_results[r]) - 1)
           IN /\ DOMAIN execution_context[r] = DOMAIN before
              /\ \A key \in DOMAIN before : execution_context[r][key] = before[key]
              /\ \A key \in DOMAIN ResultFields(LastResult(r)) \ DOMAIN before :
                    key \notin DOMAIN execution_context[r]

\* A run that ended at its second step, whose handler reported an error
\* together with output fields, after the first step's results had been
\* merged.
C24_Witness ==
    \E r \in Runs :
        /\ EndedAtFailedStep(r) /\ Len(step_results[r]) = 2
        /\ DOMAIN ResultFields(LastResult(r)) # {}
        /\ DOMAIN ResultFields(step_results[r][1]) # {}
        /\ DOMAIN ResultFields(step_results[r][1]) \subseteq DOMAIN execution_context[r]

\* Every keyword of the planner.
AllKeywords ==
    file_keywords \cup research_keywords \cup analysis_keywords
        \cup email_keywords \cup calendar_keywords

\* The request has no attachments and its query matches no vocabulary.
PlainRequest(r) ==
    /\ Started(r) /\ task[r].type # "other" /\ ~HasAttachments(r)
    /\ ~AnyKeywordIn(AllKeywords, Lower(query[r]))

\* C25: a request without attachments whose query matches no vocabulary
\* is planned as [analysis] when the query has more than 3 words and gets
\* the error plan 'could not understand' when it has 3 or fewer.
C25_DefaultPlan ==
    \A r \in Runs :
        PlainRequest(r)
        => plan[r] = IF Len(query[r]) > 3
                     THEN << [task_type |-> "analysis"] >>
                     ELSE << [task_type |-> "error", message |-> MsgNotUnderstood] >>

\* A returned run for a four-word query without vocabulary: the analysis
\* handler ran.
C25_Witness ==
    \E r \in Runs :
        /\ PlainRequest(r) /\ Returned_(r) /\ Len(query[r]) = 4
        /\ response[r]["agents_executed"] = <<"analysis">>

\* The request has no attachments and its query matches analysis
\* vocabulary, no file or research vocabulary, and has at least 3 residual
\* words.
AnalysisRequest(r) ==
    /\ Started(r) /\ task[r].type # "other" /\ ~HasAttachments(r)
    /\ ~AnyKeywordIn(file_keywords \cup research_keywords, Lower(query[r]))
    /\ AnyKeywordIn(analysis_keywords, Lower(query[r]))
    /\ Len(Residual(query[r])) >= 3

\* C26: such a request is planned as exactly [analysis], whichever of
\* messaging and scheduling vocabulary the query also matches.
C26_AnalysisPlan ==
    \A r \in Runs :
        AnalysisRequest(r) => plan[r] = << [task_type |-> "analysis"] >>

\* A returned run whose query matches analysis, messaging and scheduling
\* vocabulary and has exactly 3 residual words: only analysis ran.
C26_Witness ==
    \E r \in Runs :
        /\ AnalysisRequest(r) /\ Returned_(r)
        /\ Len(Residual(query[r])) = 3
        /\ AnyKeywordIn(email_keywords, Lower(query[r]))
        /\ AnyKeywordIn(calendar_keywords, Lower(query[r]))
        /\ response[r]["agents_executed"] = <<"analysis">>

\* A plan that is a single error entry.
SingleErrorEntry(p) ==
    /\ Len(p) = 1
    /\ DOMAIN p[1] = {"task_type", "message"}
    /\ p[1]["task_type"] = "error"
\* A plan of one or two real steps, the second of two being analysis after
\* file_processing or web_research.
RealSteps(p) ==
    /\ Len(p) \in {1, 2}
    /\ \A k \in 1..Len(p) :
          /\ DOMAIN p[k] = {"task_type"}
          /\ p[k]["task_type"] \in TaskTypes
    /\ \A j, k \in 1..Len(p) : j # k => p[j]["task_type"] # p[k]["task_type"]
    /\ Len(p) = 2
       => /\ p[1]["task_type"] \in {"file_processing", "web_research"}
          /\ p[2]["task_type"] = "analysis"

\* C27: every plan the planner returns is either a single error entry or
\* one or two different task types; a two-step plan is file_processing or
\* web_research followed by analysis; an error entry never stands beside a
\* real step.
C27_PlanShape ==
    \A r \in Runs :
        (Started(r) /\ task[r].type # "other")
        => /\ plan[r] = PlanAlone(task[r])
           /\ SingleErrorEntry(plan[r]) \/ RealSteps(plan[r])

\* A returned run whose plan is web_research followed by analysis, for a
\* query with fewer than 3 residual words.
C27_Witness ==
    \E r \in Runs :
        /\ Returned_(r) /\ Len(plan[r]) = 2
        /\ plan[r][1]["task_type"] = "web_research"
        /\ Len(Residual(query[r])) < 3

\* The request as the caller holds it is the request the run started from,
\* and a reported plan is the planner's plan for that request.
CallerSideIntact(r) ==
    /\ task[r].type \in {"str", "dict"} => task_dict[r] = Normalized(task[r])
    /\ Returned_(r) /\ "plan" \in DOMAIN Metadata(response[r])
       => /\ Metadata(response[r]).plan = PlanAlone(task[r])
          /\ Metadata(response[r]).plan = plan[r]

\* C28: a run leaves unchanged what outlives the call: no step adds, removes
\* or rebinds a key of the caller's request dict (merging goes to the run's
\* own copy), no step changes the handler registry, and the plan reported
\* in the result is the planner's plan for the caller's request, unmodified.
C28_Frame ==
    /\ [](\A r \in Runs : Started(r) => CallerSideIntact(r))
    /\ [][ /\ agents' = agents
           /\ \A r \in Runs : Started(r) => task'[r] = task[r] ]_vars

\* A completed run on a dict whose context gained keys by merging, while a
\* plan was reported.
C28_Witness ==
    \E r \in Runs :
        /\ Returned_(r)
        /\ task[r].type = "dict"
        /\ response[r]["status"] = "completed"
        /\ "plan" \in DOMAIN Metadata(response[r])
        /\ DOMAIN execution_context[r] # DOMAIN task[r].value

\* The elements of a list.
Elements(s) == { s[k] : k \in 1..Len(s) }

\* C29: with the default registry and the built-in handlers, for a request
\* made of a query and files only, every task type of a non-error plan has
\* exactly one capable handler, every attempted step succeeds, the run ends
\* with status "error" exactly when the planner returned an error plan, and
\* "unknown" is never recorded among the executed agents.
C29_BuiltInsSucceed ==
    \A r \in Runs :
        Started(r)
        => /\ DOMAIN task[r].value \subseteq {"query", "files"}
           /\ pc[r] # "raised"
           /\ ~PlanIsError(plan[r])
              => \A k \in 1..Len(plan[r]) :
                     Cardinality(CapablePositions(plan[r][k].task_type)) = 1
           /\ \A k \in 1..Len(step_results[r]) : StepSucceeded(step_results[r][k])
           /\ "unknown" \notin Elements(agents_executed[r])
           /\ Returned_(r)
              => /\ response[r]["status"] \in {"completed", "error"}
                 /\ response[r]["status"] = "error" <=> PlanIsError(plan[r])
                 /\ response[r]["status"] = "completed"
                    => /\ Len(step_results[r]) = Len(plan[r])
                       /\ "unknown" \notin
                              Elements(Metadata(response[r]).agents_executed)

\* A request with files and an analysis keyword has run both of its steps
\* and completed.
C29_Witness ==
    /\ agents = DefaultRegistry
    /\ Returned_(1)
    /\ HasAttachments(1)
    /\ response[1]["status"] = "completed"
    /\ agents_executed[1] = <<"file", "analysis">>

\* The steps of the run that were attempted and did not report status
\* "error".
StepsWithoutError(r) ==
    { k \in 1..Len(step_results[r]) : ~HasErrorStatus(step_results[r][k]) }

====
